---- MODULE Spec2Model ----
(***************************************************************************)
(* A model of the `secure` package: the header builders of                 *)
(* src/secure/headers/, the aggregator `Secure` of src/secure/secure.py    *)
(* and its two response-application entry points, set_headers and          *)
(* set_headers_async.                                                      *)
(*                                                                         *)
(* A builder is a record [kind, header_name, directives, value].  An       *)
(* ordered dict (Python dict, insertion ordered) is a sequence of          *)
(* <<key, value>> pairs with pairwise distinct keys.                       *)
(***************************************************************************)
EXTENDS Integers, Sequences, FiniteSets, TLC

VARIABLES
    constructed,      \* TRUE once a Secure instance exists
    has_dict,         \* TRUE iff the instance has a __dict__ (an instance of a
                      \* subclass of Secure without __slots__); an instance of
                      \* Secure itself has none: __slots__ = ("headers_list",)
    headers_list,     \* Secure.headers_list: the configured builders, in order
    cached,           \* TRUE iff instance.__dict__ holds the key "headers"
    cached_headers,   \* the mapping stored by cached_property (<<>> if none)
    response,         \* the response object handed to set_headers[_async]
    result,           \* outcome of the most recent call on the aggregator
    writes,           \* the writes the most recent set_headers[_async] call made
    task,             \* the set_headers_async coroutine, when suspended
    mutations,        \* number of builder mutations made after construction
    applications,     \* number of set_headers[_async] calls made
    builder,          \* a header builder used on its own (BuilderSpec)
    history           \* the method calls made on `builder`, in call order

\* the variables of the aggregator and those of the stand-alone builder
svars == <<constructed, has_dict, headers_list, cached, cached_headers,
           response, result, writes, task, mutations, applications>>
bvars == <<builder, history>>

vars == <<constructed, has_dict, headers_list, cached, cached_headers,
          response, result, writes, task, mutations, applications,
          builder, history>>

----------------------------------------------------------------------------
(* Bounds of the model *)

MaxKinds == 1        \* well-known headers passed to Secure(...) in Spec
MaxCustom == 2       \* length of the `custom` list passed to Secure(...)
MaxMutations == 1    \* builder mutations after construction
MaxApplications == 2 \* calls of set_headers / set_headers_async
MaxCalls == 3        \* method calls on the stand-alone builder (BuilderSpec)

----------------------------------------------------------------------------
(* Generic helpers *)

Range(s) == {s[i] : i \in 1..Len(s)}

RECURSIVE Join(_, _)
\* str.join: sep.join(s)
Join(s, sep) ==
    IF Len(s) = 0 THEN ""
    ELSE IF Len(s) = 1 THEN s[1]
    ELSE s[1] \o sep \o Join(Tail(s), sep)

HasKey(d, k) == \E i \in 1..Len(d) : d[i][1] = k

\* dict.__setitem__: an existing key keeps its position, a new key goes last
DictSet(d, k, v) ==
    IF HasKey(d, k)
    THEN [i \in 1..Len(d) |-> IF d[i][1] = k THEN <<k, v>> ELSE d[i]]
    ELSE Append(d, <<k, v>>)

----------------------------------------------------------------------------
(* base_header.py: header names and default values *)

Kinds == {"server", "hsts", "xfo", "content", "csp", "referrer", "cache",
          "permissions", "coop", "ceop"}

HeaderName(kind) ==
    CASE kind = "cache" -> "Cache-Control"
      [] kind = "csp" -> "Content-Security-Policy"
      [] kind = "ceop" -> "Cross-Origin-Embedder-Policy"
      [] kind = "coop" -> "Cross-Origin-Opener-Policy"
      [] kind = "permissions" -> "Permissions-Policy"
      [] kind = "referrer" -> "Referrer-Policy"
      [] kind = "server" -> "Server"
      [] kind = "hsts" -> "Strict-Transport-Security"
      [] kind = "content" -> "X-Content-Type-Options"
      [] kind = "xfo" -> "X-Frame-Options"

HeaderDefaultValue(kind) ==
    CASE kind = "cache" -> "no-store"
      [] kind = "ceop" -> "require-corp"
      [] kind = "coop" -> "same-origin"
      [] kind = "permissions" -> "geolocation=(), microphone=(), camera=()"
      [] kind = "referrer" -> "strict-origin-when-cross-origin"
      [] kind = "server" -> ""
      [] kind = "hsts" -> "max-age=31536000"
      [] kind = "content" -> "nosniff"
      [] kind = "xfo" -> "SAMEORIGIN"

\* builders whose value is a joined directive list
DirectiveKinds == {"hsts", "cache", "referrer", "permissions"}

\* Separator that joins every directive list with "; "
SeparatorSemicolon(kind) == "; "

\* the separator of header_value's join
Separator(kind) == IF kind = "hsts" THEN "; " ELSE ", "

----------------------------------------------------------------------------
(* Builders *)

\* A freshly constructed builder of a well-known kind.  ContentSecurityPolicy
\* is the class of content_security_policy.py: its attributes are `header`
\* and `value` (kept in the fields header_name and value), and its private
\* list __policy is the field directives.
NewBuilder(kind) ==
    IF kind = "csp"
    THEN [kind |-> "csp", header_name |-> "Content-Security-Policy",
          directives |-> <<>>, value |-> "script-src 'self'; object-src 'self'"]
    ELSE IF kind \in DirectiveKinds
    THEN [kind |-> kind, header_name |-> HeaderName(kind),
          directives |-> <<>>, value |-> ""]
    ELSE [kind |-> kind, header_name |-> HeaderName(kind),
          directives |-> <<>>, value |-> HeaderDefaultValue(kind)]

CustomHeader(header, value) ==
    [kind |-> "custom", header_name |-> header, directives |-> <<>>,
     value |-> value]

\* TRUE iff the object has the attributes header_name and header_value that
\* Secure reads; the ContentSecurityPolicy class has `header` and `value`
HasHeaderAttrs(b) == b.kind # "csp"

\* the header_value property of the BaseHeader subclasses
header_value(b) ==
    IF b.kind \in DirectiveKinds
    THEN IF b.directives # <<>>
         THEN Join(b.directives, Separator(b.kind))
         ELSE HeaderDefaultValue(b.kind)
    ELSE b.value

\* the name and value a builder carries, read through the attributes its own
\* class defines (header / value for ContentSecurityPolicy)
OwnName(b) == b.header_name
OwnValue(b) == IF b.kind = "csp" THEN b.value ELSE header_value(b)

\* BuildUnique without the membership test
BuildUniqueAlways(b, directive) ==
    [b EXCEPT !.directives = Append(@, directive)]

\* _build of StrictTransportSecurity, CacheControl and ReferrerPolicy
BuildUnique(b, directive) ==
    IF directive \in Range(b.directives) THEN b
    ELSE [b EXCEPT !.directives = Append(@, directive)]

\* PermissionsBuild that writes a bare directive for an empty allow-list and
\* separates the allow-list values with commas
PermissionsBuildBare(b, directive, sources) ==
    [b EXCEPT !.directives =
        Append(@, IF Len(sources) = 0 THEN directive
                  ELSE directive \o "=(" \o Join(sources, ", ") \o ")")]

\* PermissionsPolicy._build
PermissionsBuild(b, directive, sources) ==
    [b EXCEPT !.directives =
        Append(@, directive \o "=(" \o Join(sources, " ") \o ")")]

\* CspBuild that replaces the policy by the new entry instead of appending
CspBuildReplacing(b, directive, sources) ==
    LET policy == <<IF Len(sources) = 0 THEN directive
                    ELSE directive \o " " \o Join(sources, " ")>>
    IN [b EXCEPT !.directives = policy, !.value = Join(policy, "; ")]

\* ContentSecurityPolicy._build
CspBuild(b, directive, sources) ==
    LET policy == Append(b.directives,
                         IF Len(sources) = 0 THEN directive
                         ELSE directive \o " " \o Join(sources, " "))
    IN [b EXCEPT !.directives = policy, !.value = Join(policy, "; ")]

\* set(value) of each builder class
Set(b, v) ==
    CASE b.kind \in {"hsts", "cache"} -> [b EXCEPT !.directives = <<v>>]
      [] b.kind = "referrer" -> BuildUnique(b, v)
      [] b.kind = "permissions" -> PermissionsBuild(b, v, <<>>)
      [] b.kind = "csp" -> CspBuild(b, v, <<>>)
      [] OTHER -> [b EXCEPT !.value = v]

\* clear() of the builder classes that define it
HasClear(b) == b.kind \notin {"csp", "custom"}

\* Clear that empties a single-valued builder instead of restoring its default
ClearToEmpty(b) ==
    IF b.kind \in DirectiveKinds THEN [b EXCEPT !.directives = <<>>]
    ELSE [b EXCEPT !.value = ""]

Clear(b) ==
    IF b.kind \in DirectiveKinds THEN [b EXCEPT !.directives = <<>>]
    ELSE [b EXCEPT !.value = HeaderDefaultValue(b.kind)]

\* StrictTransportSecurity.max_age / include_subdomains / preload
HstsMaxAge(b, seconds) == BuildUnique(b, "max-age=" \o ToString(seconds))
HstsIncludeSubdomains(b) == BuildUnique(b, "includeSubDomains")
HstsPreload(b) == BuildUnique(b, "preload")

\* XFrameOptions.deny / sameorigin, XContentTypeOptions.nosniff
XfoDeny(b) == [b EXCEPT !.value = "DENY"]
XfoSameorigin(b) == [b EXCEPT !.value = "SAMEORIGIN"]
Nosniff(b) == [b EXCEPT !.value = "nosniff"]

\* ReferrerPolicy.no_referrer / no_referrer_when_downgrade
NoReferrer(b) == Set(b, "no-referrer")
NoReferrerWhenDowngrade(b) == Set(b, "no-referrer-when-downgrade")

\* ContentSecurityPolicy.default_src / report_only
CspDefaultSrc(b, sources) == CspBuild(b, "default-src", sources)
CspReportOnly(b) ==
    [b EXCEPT !.header_name = "Content-Security-Policy-Report-Only"]

\* PermissionsPolicy.camera / microphone
PermissionsCamera(b, allowlist) == PermissionsBuild(b, "camera", allowlist)
PermissionsMicrophone(b, allowlist) ==
    PermissionsBuild(b, "microphone", allowlist)

\* PermissionsPolicy.geolocation
PermissionsGeolocation(b, allowlist) ==
    PermissionsBuild(b, "geolocation", allowlist)

\* ContentSecurityPolicy.script_src / img_src
CspScriptSrc(b, sources) == CspBuild(b, "script-src", sources)
CspImgSrc(b, sources) == CspBuild(b, "img-src", sources)

\* CacheControlMaxAge that adds the directive before it tests the argument
CacheControlMaxAgeLate(b, seconds) ==
    [exc |-> IF seconds < 0 THEN "ValueError" ELSE "none",
     builder |-> BuildUnique(b, "max-age=" \o ToString(seconds))]

\* CacheControl.max_age: ValueError for a negative argument
CacheControlMaxAge(b, seconds) ==
    IF seconds < 0 THEN [exc |-> "ValueError", builder |-> b]
    ELSE [exc |-> "none",
          builder |-> BuildUnique(b, "max-age=" \o ToString(seconds))]

\* CacheControl.s_maxage / stale_if_error / stale_while_revalidate
CacheControlSMaxage(b, seconds) ==
    IF seconds < 0 THEN [exc |-> "ValueError", builder |-> b]
    ELSE [exc |-> "none",
          builder |-> BuildUnique(b, "s-maxage=" \o ToString(seconds))]
CacheControlStaleIfError(b, seconds) ==
    IF seconds < 0 THEN [exc |-> "ValueError", builder |-> b]
    ELSE [exc |-> "none",
          builder |-> BuildUnique(b, "stale-if-error=" \o ToString(seconds))]
CacheControlStaleWhileRevalidate(b, seconds) ==
    IF seconds < 0 THEN [exc |-> "ValueError", builder |-> b]
    ELSE [exc |-> "none",
          builder |-> BuildUnique(b, "stale-while-revalidate="
                                       \o ToString(seconds))]

\* CacheControl.no_cache / no_store
CacheControlNoCache(b) == BuildUnique(b, "no-cache")
CacheControlNoStore(b) == BuildUnique(b, "no-store")

\* ReferrerPolicy.origin
ReferrerOrigin(b) == Set(b, "origin")

\* CrossOriginOpenerPolicy.unsafe_none / same_origin_allow_popups and
\* CrossOriginEmbedderPolicy.unsafe_none
CoopUnsafeNone(b) == [b EXCEPT !.value = "unsafe-none"]
CoopSameOriginAllowPopups(b) == [b EXCEPT !.value = "same-origin-allow-popups"]
CeopUnsafeNone(b) == [b EXCEPT !.value = "unsafe-none"]

----------------------------------------------------------------------------
(* secure.py: the aggregator *)

\* the order of the tuple Secure.__init__ filters into headers_list
InitOrder == <<"server", "hsts", "xfo", "content", "csp", "referrer", "cache",
               "permissions", "coop", "ceop">>

\* Secure.__init__: args is a function from the keywords given (not None) to
\* their builders; custom is the `custom` list (<<>> for None or [])
SecureInit(args, custom) ==
    LET given == SelectSeq(InitOrder, LAMBDA k : k \in DOMAIN args)
        wellKnown == [i \in 1..Len(given) |-> args[given[i]]]
    IN IF custom # <<>> THEN wellKnown \o custom ELSE wellKnown

\* with_default_headers without include_subdomains() and with a Server header
with_default_headers_Altered ==
    SecureInit(
        [hsts |-> HstsMaxAge(NewBuilder("hsts"), 31536000),
         xfo |-> XfoDeny(NewBuilder("xfo")),
         content |-> Nosniff(NewBuilder("content")),
         csp |-> CspDefaultSrc(NewBuilder("csp"), <<"'self'">>),
         referrer |-> NoReferrerWhenDowngrade(NewBuilder("referrer")),
         server |-> NewBuilder("server"),
         permissions |-> PermissionsCamera(NewBuilder("permissions"),
                                           <<"'none'">>)],
        <<>>)

\* Secure.with_default_headers
with_default_headers ==
    SecureInit(
        [hsts |-> HstsIncludeSubdomains(HstsMaxAge(NewBuilder("hsts"), 31536000)),
         xfo |-> XfoDeny(NewBuilder("xfo")),
         content |-> Nosniff(NewBuilder("content")),
         csp |-> CspDefaultSrc(NewBuilder("csp"), <<"'self'">>),
         referrer |-> NoReferrerWhenDowngrade(NewBuilder("referrer")),
         permissions |-> PermissionsMicrophone(
                            PermissionsCamera(NewBuilder("permissions"),
                                              <<"'none'">>),
                            <<"'none'">>)],
        <<>>)

\* the values handed to from_preset: the two members of the enum Preset and
\* raw strings, which are equal to no member (Preset is a plain Enum)
PresetArgs == {"Preset.BASIC", "Preset.STRICT", "'basic'", "'strict'",
               "'invalid_preset'"}

\* from_preset whose BASIC preset also calls include_subdomains()
from_preset_BasicWithSubdomains(preset) ==
    CASE preset = "Preset.BASIC" ->
           [exc |-> "none",
            headers_list |-> SecureInit(
                [hsts |-> HstsIncludeSubdomains(
                              HstsMaxAge(NewBuilder("hsts"), 63072000)),
                 xfo |-> XfoSameorigin(NewBuilder("xfo")),
                 referrer |-> NoReferrerWhenDowngrade(NewBuilder("referrer"))],
                <<>>)]
      [] preset = "Preset.STRICT" ->
           [exc |-> "none",
            headers_list |-> SecureInit(
                [hsts |-> HstsPreload(HstsIncludeSubdomains(
                              HstsMaxAge(NewBuilder("hsts"), 31536000))),
                 xfo |-> XfoDeny(NewBuilder("xfo")),
                 referrer |-> NoReferrer(NewBuilder("referrer")),
                 csp |-> CspDefaultSrc(NewBuilder("csp"), <<"'self'">>)],
                <<>>)]
      [] OTHER -> [exc |-> "ValueError", headers_list |-> <<>>]

\* from_preset that matches the raw strings 'basic' and 'strict' by value and
\* falls back to an aggregator without headers for anything else
from_preset_ByValue(preset) ==
    CASE preset \in {"Preset.BASIC", "'basic'"} ->
           [exc |-> "none",
            headers_list |-> SecureInit(
                [hsts |-> HstsMaxAge(NewBuilder("hsts"), 63072000),
                 xfo |-> XfoSameorigin(NewBuilder("xfo")),
                 referrer |-> NoReferrerWhenDowngrade(NewBuilder("referrer"))],
                <<>>)]
      [] preset \in {"Preset.STRICT", "'strict'"} ->
           [exc |-> "none",
            headers_list |-> SecureInit(
                [hsts |-> HstsPreload(HstsIncludeSubdomains(
                              HstsMaxAge(NewBuilder("hsts"), 31536000))),
                 xfo |-> XfoDeny(NewBuilder("xfo")),
                 referrer |-> NoReferrer(NewBuilder("referrer")),
                 csp |-> CspDefaultSrc(NewBuilder("csp"), <<"'self'">>)],
                <<>>)]
      [] OTHER -> [exc |-> "none", headers_list |-> <<>>]

\* Secure.from_preset: the match statement; exc is "ValueError" for `case _`
from_preset(preset) ==
    CASE preset = "Preset.BASIC" ->
           [exc |-> "none",
            headers_list |-> SecureInit(
                [hsts |-> HstsMaxAge(NewBuilder("hsts"), 63072000),
                 xfo |-> XfoSameorigin(NewBuilder("xfo")),
                 referrer |-> NoReferrerWhenDowngrade(NewBuilder("referrer"))],
                <<>>)]
      [] preset = "Preset.STRICT" ->
           [exc |-> "none",
            headers_list |-> SecureInit(
                [hsts |-> HstsPreload(HstsIncludeSubdomains(
                              HstsMaxAge(NewBuilder("hsts"), 31536000))),
                 xfo |-> XfoDeny(NewBuilder("xfo")),
                 referrer |-> NoReferrer(NewBuilder("referrer")),
                 csp |-> CspDefaultSrc(NewBuilder("csp"), <<"'self'">>)],
                <<>>)]
      [] OTHER -> [exc |-> "ValueError", headers_list |-> <<>>]

RECURSIVE DictOfHeadersLastFirst(_)
\* DictOfHeaders iterating headers_list from its end
DictOfHeadersLastFirst(hl) ==
    IF hl = <<>> THEN <<>>
    ELSE DictSet(DictOfHeadersLastFirst(Tail(hl)),
                 hl[1].header_name, header_value(hl[1]))

RECURSIVE DictOfHeaders(_)
\* the dict comprehension {h.header_name: h.header_value for h in headers_list}
DictOfHeaders(hl) ==
    IF hl = <<>> THEN <<>>
    ELSE LET last == hl[Len(hl)]
         IN DictSet(DictOfHeaders(SubSeq(hl, 1, Len(hl) - 1)),
                    last.header_name, header_value(last))

\* Secure.__str__: one "name: value" line per member of headers_list, joined
\* by newlines; `lines` are the name/value pairs the lines are made of
Str(hl) ==
    IF \E i \in 1..Len(hl) : ~HasHeaderAttrs(hl[i])
    THEN [exc |-> "AttributeError", type_named |-> "ContentSecurityPolicy",
          lines |-> <<>>, text |-> ""]
    ELSE [exc |-> "none", type_named |-> "",
          lines |-> [i \in 1..Len(hl) |->
                       <<hl[i].header_name, header_value(hl[i])>>],
          text |-> Join([i \in 1..Len(hl) |->
                           hl[i].header_name \o ": " \o header_value(hl[i])],
                        "\n")]

\* the body of the property Secure.headers: reading header_name of an object
\* without that attribute raises AttributeError
headers_body(hl) ==
    IF \E i \in 1..Len(hl) : ~HasHeaderAttrs(hl[i])
    THEN [exc |-> "AttributeError", type_named |-> "ContentSecurityPolicy",
          value |-> <<>>]
    ELSE [exc |-> "none", type_named |-> "", value |-> DictOfHeaders(hl)]

\* headers_get that calls the body on every access and never reads the cache
headers_get_Uncached(hasDict, isCached, stored, hl) ==
    IF ~hasDict
    THEN [exc |-> "TypeError", type_named |-> "Secure", value |-> <<>>,
          store |-> FALSE]
    ELSE LET r == headers_body(hl)
         IN [exc |-> r.exc, type_named |-> r.type_named, value |-> r.value,
             store |-> r.exc = "none"]

\* functools.cached_property.__get__ on `headers`: it needs the instance's
\* __dict__ (TypeError without one), returns the stored value if there is one,
\* and otherwise calls the body and stores what it returns
headers_get(hasDict, isCached, stored, hl) ==
    IF ~hasDict
    THEN [exc |-> "TypeError", type_named |-> "Secure", value |-> <<>>,
          store |-> FALSE]
    ELSE IF isCached
    THEN [exc |-> "none", type_named |-> "", value |-> stored, store |-> FALSE]
    ELSE LET r == headers_body(hl)
         IN [exc |-> r.exc, type_named |-> r.type_named, value |-> r.value,
             store |-> r.exc = "none"]

\* SyncDispatch with the two capability tests in the opposite order
SyncDispatchMappingFirst(r) ==
    IF r.has_headers THEN "headers"
    ELSE IF r.set_header # "none" THEN "set_header"
    ELSE "unsupported"

\* the capability test of the loop body of set_headers
SyncDispatch(r) ==
    IF r.set_header # "none" THEN "set_header"
    ELSE IF r.has_headers THEN "headers"
    ELSE "unsupported"

\* the capability test of the loop body of set_headers_async
AsyncDispatch(r) ==
    IF r.set_header # "none" THEN "set_header"
    ELSE IF r.has_headers THEN "headers"
    ELSE "unsupported"

\* a call of the response's set_header that has run to completion
CallSetHeader(r, name, value) ==
    [r EXCEPT !.set_header_calls = Append(@, <<name, value>>)]

\* response.headers[name] = value
AssignHeader(r, name, value) ==
    [r EXCEPT !.headers = DictSet(@, name, value)]

\* TRUE iff the response's own code (its set_header, or the __setitem__ of
\* its `headers` mapping) raises when it is handed the header `name`
WriteRaises(r, name) == r.raises_on # "" /\ name = r.raises_on

RECURSIVE set_headers_loop_Swallowing(_, _, _)
\* set_headers_loop with the write wrapped in try / except: pass
set_headers_loop_Swallowing(items, r, w) ==
    IF items = <<>>
    THEN [exc |-> "none", type_named |-> "", response |-> r, writes |-> w]
    ELSE LET name == items[1][1]
             value == items[1][2]
             how == SyncDispatch(r)
         IN CASE how = "set_header" ->
                   IF r.set_header = "async"
                   THEN [exc |-> "RuntimeError", type_named |-> "",
                         response |-> r, writes |-> w]
                   ELSE IF WriteRaises(r, name)
                   THEN set_headers_loop_Swallowing(Tail(items), r, w)
                   ELSE set_headers_loop_Swallowing(Tail(items),
                            CallSetHeader(r, name, value),
                            Append(w, <<"set_header", name, value>>))
              [] how = "headers" ->
                   IF WriteRaises(r, name)
                   THEN set_headers_loop_Swallowing(Tail(items), r, w)
                   ELSE set_headers_loop_Swallowing(Tail(items),
                            AssignHeader(r, name, value),
                            Append(w, <<"headers", name, value>>))
              [] OTHER ->
                   [exc |-> "AttributeError", type_named |-> r.type,
                    response |-> r, writes |-> w]

RECURSIVE set_headers_loop(_, _, _)
\* the for loop of set_headers over items, from response r with writes w
set_headers_loop(items, r, w) ==
    IF items = <<>>
    THEN [exc |-> "none", type_named |-> "", response |-> r, writes |-> w]
    ELSE LET name == items[1][1]
             value == items[1][2]
             how == SyncDispatch(r)
         IN CASE how = "set_header" ->
                   IF r.set_header = "async"
                   THEN [exc |-> "RuntimeError", type_named |-> "",
                         response |-> r, writes |-> w]
                   ELSE IF WriteRaises(r, name)
                   THEN [exc |-> "ResponseError", type_named |-> "",
                         response |-> r, writes |-> w]
                   ELSE set_headers_loop(Tail(items),
                            CallSetHeader(r, name, value),
                            Append(w, <<"set_header", name, value>>))
              [] how = "headers" ->
                   IF WriteRaises(r, name)
                   THEN [exc |-> "ResponseError", type_named |-> "",
                         response |-> r, writes |-> w]
                   ELSE set_headers_loop(Tail(items),
                            AssignHeader(r, name, value),
                            Append(w, <<"headers", name, value>>))
              [] OTHER ->
                   [exc |-> "AttributeError", type_named |-> r.type,
                    response |-> r, writes |-> w]

RECURSIVE set_headers_async_loop_NoAwait(_, _, _, _)
\* set_headers_async_loop without suspension: every invocation of an
\* asynchronous set_header is started at once and none is awaited
set_headers_async_loop_NoAwait(items, k, r, w) ==
    IF k > Len(items)
    THEN [exc |-> "none", type_named |-> "", response |-> r, writes |-> w,
          await |-> 0]
    ELSE LET name == items[k][1]
             value == items[k][2]
             how == AsyncDispatch(r)
         IN CASE how = "set_header" ->
                   set_headers_async_loop_NoAwait(items, k + 1,
                            CallSetHeader(r, name, value),
                            Append(w, <<"set_header", name, value>>))
              [] how = "headers" ->
                   set_headers_async_loop_NoAwait(items, k + 1,
                            AssignHeader(r, name, value),
                            Append(w, <<"headers", name, value>>))
              [] OTHER ->
                   [exc |-> "AttributeError", type_named |-> r.type,
                    response |-> r, writes |-> w, await |-> 0]

RECURSIVE set_headers_async_loop(_, _, _, _)
\* the for loop of set_headers_async from item k on, up to its next await
\* (await |-> k: suspended in the awaited set_header call for item k) or its
\* end (await |-> 0)
set_headers_async_loop(items, k, r, w) ==
    IF k > Len(items)
    THEN [exc |-> "none", type_named |-> "", response |-> r, writes |-> w,
          await |-> 0]
    ELSE LET name == items[k][1]
             value == items[k][2]
             how == AsyncDispatch(r)
         IN CASE how = "set_header" ->
                   IF r.set_header = "async"
                   THEN [exc |-> "pending", type_named |-> "", response |-> r,
                         writes |-> w, await |-> k]
                   ELSE IF WriteRaises(r, name)
                   THEN [exc |-> "ResponseError", type_named |-> "",
                         response |-> r, writes |-> w, await |-> 0]
                   ELSE set_headers_async_loop(items, k + 1,
                            CallSetHeader(r, name, value),
                            Append(w, <<"set_header", name, value>>))
              [] how = "headers" ->
                   IF WriteRaises(r, name)
                   THEN [exc |-> "ResponseError", type_named |-> "",
                         response |-> r, writes |-> w, await |-> 0]
                   ELSE set_headers_async_loop(items, k + 1,
                            AssignHeader(r, name, value),
                            Append(w, <<"headers", name, value>>))
              [] OTHER ->
                   [exc |-> "AttributeError", type_named |-> r.type,
                    response |-> r, writes |-> w, await |-> 0]

----------------------------------------------------------------------------
(* The environment: response objects, constructor arguments, mutators *)

\* type(response).__name__ of the response shapes of the model
ResponseType(hasHeaders, setHeader) ==
    IF hasHeaders
    THEN IF setHeader = "none" THEN "MockResponse"
         ELSE IF setHeader = "sync" THEN "MockResponseWithSetHeader"
         ELSE "MockResponseAsyncSetHeader"
    ELSE IF setHeader = "none" THEN "MockResponseNoHeaders"
         ELSE IF setHeader = "sync" THEN "SetterOnlyResponse"
         ELSE "AsyncSetterOnlyResponse"

\* what a response's headers mapping holds before the aggregator is applied
ExistingHeaders == {<<>>, << <<"Server", "old">>, <<"X-Pre", "keep">> >>}

\* the response objects: with or without a `headers` mapping, and without a
\* set_header, with a plain one, or with a coroutine function
Responses ==
    {r \in [type : {ResponseType(h, s) : h \in BOOLEAN,
                                         s \in {"none", "sync", "async"}},
            has_headers : BOOLEAN, set_header : {"none", "sync", "async"},
            headers : ExistingHeaders, set_header_calls : {<<>>},
            raises_on : {""}] :
        /\ r.type = ResponseType(r.has_headers, r.set_header)
        /\ ~r.has_headers => r.headers = <<>>}

\* the header name a faulty response refuses
FaultNames == {"X-A"}

\* response objects whose set_header, or whose `headers` mapping, raises when
\* it is handed one particular header
FaultyResponses ==
    {r \in [type : {ResponseType(h, s) : h \in BOOLEAN,
                                         s \in {"none", "sync", "async"}},
            has_headers : BOOLEAN, set_header : {"none", "sync", "async"},
            headers : {<<>>}, set_header_calls : {<<>>},
            raises_on : FaultNames] :
        /\ r.type = ResponseType(r.has_headers, r.set_header)
        /\ r.has_headers \/ r.set_header # "none"}

\* the custom headers the caller may supply
CustomPool == {CustomHeader("X-A", "1"), CustomHeader("Server", "3")}

CustomLists == UNION {[1..n -> CustomPool] : n \in 0..MaxCustom}

\* the keywords of Secure(...) that Spec passes: a single-valued builder
\* whose name a custom header may also carry (server), a directive builder
\* (hsts), and the ContentSecurityPolicy object (csp); the factories
\* with_default_headers and from_preset bring in the other kinds
AppliedKinds == {"server", "hsts", "csp"}

\* the keyword sets of Secure(...) that Spec explores
KindSets == {S \in SUBSET AppliedKinds : Cardinality(S) <= MaxKinds}

\* the builder methods the model calls after construction
Mutators(b) ==
    {"set"}
    \cup (IF HasClear(b) THEN {"clear"} ELSE {})
    \cup (IF b.kind \in {"hsts", "referrer", "permissions", "csp", "xfo"}
          THEN {"directive"} ELSE {})
    \cup (IF b.kind = "csp" THEN {"report_only"} ELSE {})

ApplyMutator(b, m) ==
    CASE m = "set" -> Set(b, "custom-value")
      [] m = "clear" -> Clear(b)
      [] m = "report_only" -> CspReportOnly(b)
      [] m = "directive" ->
           CASE b.kind = "hsts" -> HstsIncludeSubdomains(b)
             [] b.kind = "referrer" -> NoReferrer(b)
             [] b.kind = "permissions" -> PermissionsCamera(b, <<>>)
             [] b.kind = "csp" -> CspDefaultSrc(b, <<"'self'">>)
             [] b.kind = "xfo" -> XfoDeny(b)

\* no stand-alone builder is in use
NoBuilder == [kind |-> "none", header_name |-> "", directives |-> <<>>,
              value |-> ""]

NoResult == [op |-> "none", arg |-> "", exc |-> "none", type_named |-> ""]
NoTask == [active |-> FALSE, items |-> <<>>, k |-> 0]

----------------------------------------------------------------------------
(* The state machine *)

Init ==
    /\ constructed = FALSE
    /\ has_dict \in BOOLEAN
    /\ headers_list = <<>>
    /\ cached = FALSE
    /\ cached_headers = <<>>
    /\ response \in Responses
    /\ result = NoResult
    /\ writes = <<>>
    /\ task = NoTask
    /\ mutations = 0
    /\ applications = 0
    /\ builder = NoBuilder
    /\ history = <<>>

\* Secure(**args, custom=custom) with freshly constructed builders
New(S, custom) ==
    /\ ~constructed
    /\ constructed' = TRUE
    /\ headers_list' = SecureInit([k \in S |-> NewBuilder(k)], custom)
    /\ result' = [op |-> "Secure", arg |-> "", exc |-> "none",
                  type_named |-> ""]
    /\ UNCHANGED <<has_dict, cached, cached_headers, response, writes, task,
                   mutations, applications>>
    /\ UNCHANGED bvars

\* Secure.with_default_headers()
WithDefaultHeaders ==
    /\ ~constructed
    /\ constructed' = TRUE
    /\ headers_list' = with_default_headers
    /\ result' = [op |-> "with_default_headers", arg |-> "", exc |-> "none",
                  type_named |-> ""]
    /\ UNCHANGED <<has_dict, cached, cached_headers, response, writes, task,
                   mutations, applications>>
    /\ UNCHANGED bvars

\* Secure.from_preset(preset)
FromPreset(preset) ==
    /\ ~constructed
    /\ result.op = "none"
    /\ LET r == from_preset(preset)
       IN /\ constructed' = (r.exc = "none")
          /\ headers_list' = r.headers_list
          /\ result' = [op |-> "from_preset", arg |-> preset, exc |-> r.exc,
                        type_named |-> ""]
    /\ UNCHANGED <<has_dict, cached, cached_headers, response, writes, task,
                   mutations, applications>>
    /\ UNCHANGED bvars

\* a builder method called on the i-th configured header
Mutate(i, m) ==
    /\ constructed
    /\ mutations < MaxMutations
    /\ i \in 1..Len(headers_list)
    /\ m \in Mutators(headers_list[i])
    /\ headers_list' = [headers_list EXCEPT ![i] = ApplyMutator(@, m)]
    /\ mutations' = mutations + 1
    /\ UNCHANGED <<constructed, has_dict, cached, cached_headers, response,
                   result, writes, task, applications>>
    /\ UNCHANGED bvars

\* secure.headers
Headers ==
    /\ constructed
    /\ LET g == headers_get(has_dict, cached, cached_headers, headers_list)
       IN /\ cached' = (cached \/ g.store)
          /\ cached_headers' = IF g.store THEN g.value ELSE cached_headers
          /\ result' = [op |-> "headers", arg |-> "", exc |-> g.exc,
                        type_named |-> g.type_named]
    /\ UNCHANGED <<constructed, has_dict, headers_list, response, writes,
                   task, mutations, applications>>
    /\ UNCHANGED bvars

\* str(secure)
CallStr ==
    /\ constructed
    /\ LET t == Str(headers_list)
       IN result' = [op |-> "str", arg |-> "", exc |-> t.exc,
                     type_named |-> t.type_named]
    /\ UNCHANGED <<constructed, has_dict, headers_list, cached, cached_headers,
                   response, writes, task, mutations, applications>>
    /\ UNCHANGED bvars

\* secure.set_headers(response)
SetHeaders ==
    /\ constructed
    /\ ~task.active
    /\ applications < MaxApplications
    /\ LET g == headers_get(has_dict, cached, cached_headers, headers_list)
       IN /\ cached' = (cached \/ g.store)
          /\ cached_headers' = IF g.store THEN g.value ELSE cached_headers
          /\ IF g.exc # "none"
             THEN /\ result' = [op |-> "set_headers", arg |-> "", exc |-> g.exc,
                                type_named |-> g.type_named]
                  /\ writes' = <<>>
                  /\ UNCHANGED response
             ELSE LET r == set_headers_loop(g.value, response, <<>>)
                  IN /\ result' = [op |-> "set_headers", arg |-> "", exc |-> r.exc,
                                   type_named |-> r.type_named]
                     /\ writes' = r.writes
                     /\ response' = r.response
    /\ applications' = applications + 1
    /\ UNCHANGED <<constructed, has_dict, headers_list, task, mutations>>
    /\ UNCHANGED bvars

\* await secure.set_headers_async(response), up to its first suspension
SetHeadersAsync ==
    /\ constructed
    /\ ~task.active
    /\ applications < MaxApplications
    /\ LET g == headers_get(has_dict, cached, cached_headers, headers_list)
       IN /\ cached' = (cached \/ g.store)
          /\ cached_headers' = IF g.store THEN g.value ELSE cached_headers
          /\ IF g.exc # "none"
             THEN /\ result' = [op |-> "set_headers_async", arg |-> "",
                                exc |-> g.exc,
                                type_named |-> g.type_named]
                  /\ writes' = <<>>
                  /\ UNCHANGED <<response, task>>
             ELSE LET r == set_headers_async_loop(g.value, 1, response, <<>>)
                  IN /\ result' = [op |-> "set_headers_async", arg |-> "",
                                exc |-> r.exc,
                                   type_named |-> r.type_named]
                     /\ writes' = r.writes
                     /\ response' = r.response
                     /\ task' = IF r.await > 0
                                THEN [active |-> TRUE, items |-> g.value,
                                      k |-> r.await]
                                ELSE NoTask
    /\ applications' = applications + 1
    /\ UNCHANGED <<constructed, has_dict, headers_list, mutations>>
    /\ UNCHANGED bvars

\* the awaited set_header call completes, or raises, and set_headers_async
\* runs on to its next await or to its end
AsyncResume ==
    /\ task.active
    /\ LET item == task.items[task.k]
           r == IF WriteRaises(response, item[1])
                THEN [exc |-> "ResponseError", type_named |-> "",
                      response |-> response, writes |-> writes, await |-> 0]
                ELSE set_headers_async_loop(task.items, task.k + 1,
                         CallSetHeader(response, item[1], item[2]),
                         Append(writes, <<"set_header", item[1], item[2]>>))
       IN /\ result' = [op |-> "set_headers_async", arg |-> "",
                                exc |-> r.exc,
                        type_named |-> r.type_named]
          /\ writes' = r.writes
          /\ response' = r.response
          /\ task' = IF r.await > 0 THEN [task EXCEPT !.k = r.await]
                     ELSE NoTask
    /\ UNCHANGED <<constructed, has_dict, headers_list, cached,
                   cached_headers, mutations, applications>>
    /\ UNCHANGED bvars

Next ==
    \/ \E S \in KindSets, custom \in CustomLists : New(S, custom)
    \/ WithDefaultHeaders
    \/ \E preset \in PresetArgs : FromPreset(preset)
    \/ \E i \in 1..Len(headers_list), m \in {"set", "clear", "directive",
                                             "report_only"} : Mutate(i, m)
    \/ Headers
    \/ CallStr
    \/ SetHeaders
    \/ SetHeadersAsync
    \/ AsyncResume

Spec == Init /\ [][Next]_vars

\* the same machine, handed a response whose writes can raise
FaultInit ==
    /\ constructed = FALSE
    /\ has_dict \in BOOLEAN
    /\ headers_list = <<>>
    /\ cached = FALSE
    /\ cached_headers = <<>>
    /\ response \in FaultyResponses
    /\ result = NoResult
    /\ writes = <<>>
    /\ task = NoTask
    /\ mutations = 0
    /\ applications = 0
    /\ builder = NoBuilder
    /\ history = <<>>

FaultSpec == FaultInit /\ [][Next]_vars

----------------------------------------------------------------------------
(* A builder used on its own: the calls made on it and their outcomes *)

\* the argument lists handed to the *sources and *allowlist methods
Sources == {<<>>, <<"'self'">>, <<"'self'", "cdn.example.com">>}

\* the arguments handed to max_age
MaxAges == {-1, 0, 1, 2}

\* the arguments handed to set
SetValues == {"custom-value", "no-store"}

\* a method call: its name, its string arguments and its integer argument
Call(method, args, n) == [method |-> method, args |-> args, n |-> n]

\* the named directive methods the model calls on a builder of each kind
Calls(kind) ==
    CASE kind = "hsts" ->
           {Call("include_subdomains", <<>>, 0), Call("preload", <<>>, 0)}
      [] kind = "cache" ->
           {Call("no_cache", <<>>, 0), Call("no_store", <<>>, 0)}
      [] kind = "referrer" ->
           {Call("no_referrer", <<>>, 0), Call("origin", <<>>, 0)}
      [] kind = "permissions" ->
           {Call(m, a, 0) : m \in {"camera", "geolocation"}, a \in Sources}
      [] kind = "csp" ->
           {Call(m, a, 0) : m \in {"default_src", "script_src", "img_src"},
                            a \in Sources}
      [] kind = "xfo" -> {Call("deny", <<>>, 0), Call("sameorigin", <<>>, 0)}
      [] kind = "content" -> {Call("nosniff", <<>>, 0)}
      [] kind = "coop" ->
           {Call("unsafe_none", <<>>, 0),
            Call("same_origin_allow_popups", <<>>, 0)}
      [] kind = "ceop" -> {Call("unsafe_none", <<>>, 0)}
      [] OTHER -> {}

\* the builder after the named directive method c has returned
ApplyDirective(b, c) ==
    CASE c.method = "include_subdomains" -> HstsIncludeSubdomains(b)
      [] c.method = "preload" -> HstsPreload(b)
      [] c.method = "no_cache" -> CacheControlNoCache(b)
      [] c.method = "no_store" -> CacheControlNoStore(b)
      [] c.method = "no_referrer" -> NoReferrer(b)
      [] c.method = "origin" -> ReferrerOrigin(b)
      [] c.method = "camera" -> PermissionsCamera(b, c.args)
      [] c.method = "geolocation" -> PermissionsGeolocation(b, c.args)
      [] c.method = "default_src" -> CspDefaultSrc(b, c.args)
      [] c.method = "script_src" -> CspScriptSrc(b, c.args)
      [] c.method = "img_src" -> CspImgSrc(b, c.args)
      [] c.method = "deny" -> XfoDeny(b)
      [] c.method = "sameorigin" -> XfoSameorigin(b)
      [] c.method = "nosniff" -> Nosniff(b)
      [] c.method = "same_origin_allow_popups" -> CoopSameOriginAllowPopups(b)
      [] c.method = "unsafe_none" ->
           IF b.kind = "coop" THEN CoopUnsafeNone(b) ELSE CeopUnsafeNone(b)

\* max_age(seconds) on a StrictTransportSecurity or CacheControl builder
ApplyMaxAge(b, seconds) ==
    IF b.kind = "cache" THEN CacheControlMaxAge(b, seconds)
    ELSE [exc |-> "none", builder |-> HstsMaxAge(b, seconds)]

\* the arguments handed to s_maxage, stale_if_error, stale_while_revalidate
Durations == {-1, 60}

\* the numeric directive methods of CacheControl besides max_age
NumericMethods == {"s_maxage", "stale_if_error", "stale_while_revalidate"}

\* a numeric directive method of CacheControl called with `seconds`
ApplyNumeric(b, method, seconds) ==
    CASE method = "s_maxage" -> CacheControlSMaxage(b, seconds)
      [] method = "stale_if_error" -> CacheControlStaleIfError(b, seconds)
      [] method = "stale_while_revalidate" ->
           CacheControlStaleWhileRevalidate(b, seconds)

\* b.clear(): AttributeError when the class defines no clear method
ApplyClear(b) ==
    IF HasClear(b) THEN [exc |-> "none", builder |-> Clear(b)]
    ELSE [exc |-> "AttributeError", builder |-> b]

\* what a method that ends in `return self` hands back: the builder, or
\* nothing when it raised
Returned(exc) == IF exc = "none" THEN "self" ELSE "nothing"

\* the aggregator-side variables while only a builder is in use
NoSecure ==
    /\ constructed = FALSE
    /\ has_dict = FALSE
    /\ headers_list = <<>>
    /\ cached = FALSE
    /\ cached_headers = <<>>
    /\ response = [type |-> "MockResponseNoHeaders", has_headers |-> FALSE,
                   set_header |-> "none", headers |-> <<>>,
                   set_header_calls |-> <<>>, raises_on |-> ""]
    /\ result = NoResult
    /\ writes = <<>>
    /\ task = NoTask
    /\ mutations = 0
    /\ applications = 0

\* a freshly constructed builder of one of the well-known kinds
BuilderInit ==
    /\ NoSecure
    /\ builder \in {NewBuilder(kind) : kind \in Kinds}
                   \cup {CustomHeader("X-Custom-Header", "initial-value")}
    /\ history = <<>>

\* a named directive method without numeric argument
CallDirective(c) ==
    /\ Len(history) < MaxCalls
    /\ c \in Calls(builder.kind)
    /\ builder' = ApplyDirective(builder, c)
    /\ history' = Append(history, [method |-> c.method, args |-> c.args,
                                   n |-> c.n, exc |-> "none",
                                   ret |-> "self"])
    /\ UNCHANGED svars

\* builder.max_age(seconds)
CallMaxAge(seconds) ==
    /\ Len(history) < MaxCalls
    /\ builder.kind \in {"hsts", "cache"}
    /\ LET r == ApplyMaxAge(builder, seconds)
       IN /\ builder' = r.builder
          /\ history' = Append(history, [method |-> "max_age", args |-> <<>>,
                                         n |-> seconds, exc |-> r.exc,
                                         ret |-> Returned(r.exc)])
    /\ UNCHANGED svars

\* cache_control.s_maxage(seconds) / stale_if_error / stale_while_revalidate
CallNumeric(method, seconds) ==
    /\ Len(history) < MaxCalls
    /\ builder.kind = "cache"
    /\ LET r == ApplyNumeric(builder, method, seconds)
       IN /\ builder' = r.builder
          /\ history' = Append(history, [method |-> method, args |-> <<>>,
                                         n |-> seconds, exc |-> r.exc,
                                         ret |-> Returned(r.exc)])
    /\ UNCHANGED svars

\* builder.set(value)
CallSet(value) ==
    /\ Len(history) < MaxCalls
    /\ builder.kind \in Kinds \cup {"custom"}
    /\ builder' = Set(builder, value)
    /\ history' = Append(history, [method |-> "set", args |-> <<value>>,
                                   n |-> 0, exc |-> "none",
                                   ret |-> "self"])
    /\ UNCHANGED svars

\* builder.clear()
CallClear ==
    /\ Len(history) < MaxCalls
    /\ builder.kind \in Kinds
    /\ LET r == ApplyClear(builder)
       IN /\ builder' = r.builder
          /\ history' = Append(history, [method |-> "clear", args |-> <<>>,
                                         n |-> 0, exc |-> r.exc,
                                         ret |-> Returned(r.exc)])
    /\ UNCHANGED svars

\* csp.report_only(): the method has no return statement
CallReportOnly ==
    /\ Len(history) < MaxCalls
    /\ builder.kind = "csp"
    /\ builder' = CspReportOnly(builder)
    /\ history' = Append(history, [method |-> "report_only", args |-> <<>>,
                                   n |-> 0, exc |-> "none",
                                   ret |-> "None"])
    /\ UNCHANGED svars

BuilderNext ==
    \/ \E c \in Calls(builder.kind) : CallDirective(c)
    \/ \E seconds \in MaxAges : CallMaxAge(seconds)
    \/ \E method \in NumericMethods, seconds \in Durations :
          CallNumeric(method, seconds)
    \/ \E value \in SetValues : CallSet(value)
    \/ CallClear
    \/ CallReportOnly

BuilderSpec == BuilderInit /\ [][BuilderNext]_vars

----------------------------------------------------------------------------
(* Properties *)

C2_DeliveredBySetter ==
    (result.op = "set_headers" /\ response.has_headers
        /\ response.set_header = "sync")
        => /\ result.exc = "none"
           /\ Len(writes) = Len(headers_list)
           /\ \A k \in 1..Len(writes) :
                 writes[k] = <<"set_header", OwnName(headers_list[k]),
                               OwnValue(headers_list[k])>>
           /\ response.headers \in ExistingHeaders

\* C3: set_headers / set_headers_async on a response with neither `headers`
\* nor set_header fails with an error naming the response's type, for every
\* aggregator, also one with no headers; it never returns normally.
C3_UnsupportedResponseFails ==
    (result.op \in {"set_headers", "set_headers_async"}
        /\ ~response.has_headers /\ response.set_header = "none")
        => (result.exc = "AttributeError" /\ result.type_named = response.type)

\* C4: set_headers on a response whose set_header is a coroutine function
\* fails with RuntimeError, without invoking the setter and without recording
\* any header.
C4_SyncContextViolation ==
    (result.op = "set_headers" /\ response.set_header = "async")
        => (result.exc = "RuntimeError" /\ writes = <<>>)

\* C5: set_headers_async on a response whose set_header is asynchronous
\* awaits every invocation and, once finished, has recorded exactly the
\* name/value pairs of Secure.headers.
C5_AsyncRecordsHeaders ==
    (result.op = "set_headers_async" /\ response.set_header = "async"
        /\ ~task.active)
        => /\ result.exc = "none"
           /\ cached
           /\ writes = [k \in 1..Len(cached_headers) |->
                          <<"set_header", cached_headers[k][1],
                            cached_headers[k][2]>>]

\* C6: headers_list lists the well-known headers in the canonical order
\* cache, ceop, coop, csp, hsts, permissions, referrer, server, content, xfo,
\* whatever the keyword order; a configured csp precedes a configured server.
C6_CanonicalOrder ==
    LET canonical == <<"cache", "ceop", "coop", "csp", "hsts", "permissions",
                       "referrer", "server", "content", "xfo">>
        Pos(kind) == CHOOSE n \in 1..Len(canonical) : canonical[n] = kind
    IN constructed =>
         \A i, j \in 1..Len(headers_list) :
            (i < j /\ headers_list[i].kind \in Kinds
                /\ headers_list[j].kind \in Kinds)
                => Pos(headers_list[i].kind) < Pos(headers_list[j].kind)

C8_FirstAccessRendersAndCaches ==
    (result.op = "headers"
        /\ \A i \in 1..Len(headers_list) : HasHeaderAttrs(headers_list[i]))
        => (result.exc = "none" /\ cached)

C10_StrictPreset ==
    (result.op = "from_preset" /\ result.arg = "Preset.STRICT"
        /\ mutations = 0)
        => /\ \E i \in 1..Len(headers_list) :
                 /\ OwnName(headers_list[i]) = "Strict-Transport-Security"
                 /\ OwnValue(headers_list[i])
                      = "max-age=63072000; includeSubDomains; preload"
           /\ \E i \in 1..Len(headers_list) :
                 /\ OwnName(headers_list[i]) = "X-Frame-Options"
                 /\ OwnValue(headers_list[i]) = "DENY"
           /\ \E i \in 1..Len(headers_list) :
                 /\ OwnName(headers_list[i]) = "Referrer-Policy"
                 /\ OwnValue(headers_list[i]) = "no-referrer"
           /\ \E i \in 1..Len(headers_list) :
                 /\ OwnName(headers_list[i]) = "Content-Security-Policy"
                 /\ {"base-uri 'none'", "frame-ancestors 'none'"}
                      \subseteq Range(headers_list[i].directives)

C12_UnknownPresetFails ==
    (result.op = "from_preset"
        /\ result.arg \notin {"Preset.BASIC", "Preset.STRICT"})
        => /\ result.exc = "ValueError"
           /\ ~constructed
           /\ headers_list = <<>>

\* C12 witness: from_preset('basic') has just raised ValueError.
C12_Witness ==
    /\ result.op = "from_preset" /\ result.arg = "'basic'"
    /\ result.exc = "ValueError"

----------------------------------------------------------------------------
(* Properties of a builder used on its own (BuilderSpec) *)

\* the most recent call made on the builder (when history is not empty)
LastCall == history[Len(history)]

\* the builders that keep a directive list
ListBuilders == {"cache", "hsts", "referrer", "permissions", "csp"}

\* the header-grammar name a directive method stands for
StatedName(method) ==
    CASE method = "include_subdomains" -> "includeSubDomains"
      [] method = "no_cache" -> "no-cache"
      [] method = "no_store" -> "no-store"
      [] method = "no_referrer" -> "no-referrer"
      [] method = "default_src" -> "default-src"
      [] method = "script_src" -> "script-src"
      [] method = "img_src" -> "img-src"
      [] OTHER -> method

\* the token a directive call is stated to contribute to a builder of `kind`
StatedToken(kind, c) ==
    CASE c.method = "max_age" -> "max-age=" \o ToString(c.n)
      [] c.method = "s_maxage" -> "s-maxage=" \o ToString(c.n)
      [] c.method = "stale_if_error" -> "stale-if-error=" \o ToString(c.n)
      [] c.method = "stale_while_revalidate" ->
           "stale-while-revalidate=" \o ToString(c.n)
      [] kind = "permissions" ->
           StatedName(c.method) \o "=(" \o Join(c.args, " ") \o ")"
      [] kind = "csp" ->
           IF c.args = <<>> THEN StatedName(c.method)
           ELSE StatedName(c.method) \o " " \o Join(c.args, " ")
      [] OTHER -> StatedName(c.method)

RECURSIVE FirstOccurrences(_)
\* s without the later repetitions of its elements
FirstOccurrences(s) ==
    IF s = <<>> THEN <<>>
    ELSE LET init == FirstOccurrences(SubSeq(s, 1, Len(s) - 1))
         IN IF s[Len(s)] \in Range(init) THEN init
            ELSE Append(init, s[Len(s)])

\* TRUE iff the call is one of a directive method
IsDirectiveCall(c) == c.method \notin {"set", "clear", "report_only"}

\* TRUE iff set and clear have not been called so far
OnlyDirectiveCalls ==
    \A i \in 1..Len(history) : history[i].method \notin {"set", "clear"}

\* C13: CacheControl.max_age(n) and StrictTransportSecurity.max_age(n) fail
\* with ValueError for every negative n and succeed for n = 0, rendering
\* "max-age=0"; no directive list ever holds a negative max-age.
C13_NegativeMaxAgeRejected ==
    /\ \A i \in 1..Len(history) :
          history[i].method = "max_age"
              => (history[i].exc = "ValueError") = (history[i].n < 0)
    /\ (Len(history) = 1 /\ LastCall.method = "max_age" /\ LastCall.n = 0)
          => OwnValue(builder) = "max-age=0"
    /\ "max-age=-1" \notin Range(builder.directives)

\* C14: immediately after set(v) on a CacheControl, StrictTransportSecurity,
\* ReferrerPolicy, PermissionsPolicy or ContentSecurityPolicy builder, after
\* any earlier calls, the rendered value is exactly v.
C14_SetReplacesEverything ==
    (Len(history) > 0 /\ LastCall.method = "set"
        /\ builder.kind \in ListBuilders)
        => /\ LastCall.exc = "none"
           /\ OwnValue(builder) = LastCall.args[1]

\* C15: clear() succeeds on a builder of every kind and makes its rendered
\* value equal to that of a freshly constructed builder of the kind.
C15_ClearRevertsToDefault ==
    (Len(history) > 0 /\ LastCall.method = "clear")
        => /\ LastCall.exc = "none"
           /\ OwnValue(builder) = OwnValue(NewBuilder(builder.kind))

\* C16: a freshly constructed builder renders the documented default of its
\* kind.
C16_FreshBuilderDefault ==
    (history = <<>> /\ builder.kind \in Kinds)
        => OwnValue(builder) =
             CASE builder.kind = "cache" -> "no-store"
               [] builder.kind = "xfo" -> "SAMEORIGIN"
               [] builder.kind = "hsts" -> "max-age=31536000"
               [] builder.kind = "referrer" -> "strict-origin-when-cross-origin"
               [] builder.kind = "content" -> "nosniff"
               [] builder.kind = "coop" -> "same-origin"
               [] builder.kind = "ceop" -> "require-corp"
               [] builder.kind = "server" -> ""
               [] builder.kind = "permissions" ->
                    "geolocation=(), microphone=(), camera=()"
               [] builder.kind = "csp" ->
                    "default-src 'self'; script-src 'self'; style-src 'self'; object-src 'none'"

\* C17: once a directive has been added (and while neither set nor clear has
\* been called) the rendered value is the tokens of the directive calls in
\* call order, joined with "; " for Content-Security-Policy and
\* Strict-Transport-Security and with ", " for Cache-Control, Referrer-Policy
\* and Permissions-Policy; a CSP token is the directive name followed by its
\* sources separated by single spaces.  (For the three builders that ignore
\* the repetition of a token, the token stays where it first went.)
C17_CallOrderAndSeparators ==
    LET kind == builder.kind
        added == SelectSeq(history,
                           LAMBDA c : c.exc = "none" /\ IsDirectiveCall(c))
        tokens == [i \in 1..Len(added) |-> StatedToken(kind, added[i])]
        kept == IF kind \in {"csp", "permissions"} THEN tokens
                ELSE FirstOccurrences(tokens)
        sep == IF kind \in {"csp", "hsts"} THEN "; " ELSE ", "
    IN (kind \in ListBuilders /\ OnlyDirectiveCalls /\ Len(added) > 0)
         => /\ builder.directives = kept
            /\ OwnValue(builder) = Join(kept, sep)

\* C17 witness: two different directives have been added to a Cache-Control
\* builder, the later-sorting one first.
C17_Witness ==
    /\ builder.kind = "cache"
    /\ OnlyDirectiveCalls
    /\ Len(history) = 2
    /\ history[1].method = "no_store" /\ history[2].method = "no_cache"
    /\ OwnValue(builder) = "no-store, no-cache"

\* C18: the directive list of a CacheControl, ReferrerPolicy or
\* StrictTransportSecurity builder never holds the same string twice, and a
\* directive call whose token is already in the list leaves the list as it
\* is; on a ContentSecurityPolicy or PermissionsPolicy builder every directive
\* call appends its token, also when the list already holds it.
C18_DuplicateHandling ==
    /\ [](builder.kind \in {"cache", "referrer", "hsts"}
            => \A i, j \in 1..Len(builder.directives) :
                  i # j => builder.directives[i] # builder.directives[j])
    /\ [][(history' # history
             /\ IsDirectiveCall(history'[Len(history')])
             /\ history'[Len(history')].exc = "none")
           => LET token == StatedToken(builder.kind, history'[Len(history')])
              IN /\ (builder.kind \in {"cache", "referrer", "hsts"}
                        /\ token \in Range(builder.directives))
                      => builder'.directives = builder.directives
                 /\ builder.kind \in {"csp", "permissions"}
                      => builder'.directives
                           = Append(builder.directives, token)]_vars

\* C18 witness: the same directive method has been called twice on a
\* StrictTransportSecurity builder that now holds one directive.
C18_Witness ==
    /\ builder.kind = "hsts"
    /\ Len(history) = 2
    /\ history[1] = history[2]
    /\ history[1].method = "preload"
    /\ Len(builder.directives) = 1

\* C19 (as stated): a directive call with new arguments appends, and only
\* clear() removes earlier entries: after any other call the earlier list is
\* still there, as a prefix of the new one.
C19_OnlyClearRemoves ==
    [][(history' # history /\ history'[Len(history')].method # "clear")
        => /\ Len(builder'.directives) >= Len(builder.directives)
           /\ SubSeq(builder'.directives, 1, Len(builder.directives))
                = builder.directives]_vars

\* C19 (amended): a directive method never removes or replaces an earlier
\* entry: a directive call whose token is not yet in the list appends it, so
\* the same method called twice with different arguments leaves two entries
\* in call order (CacheControl().max_age(1).max_age(2) renders
\* "max-age=1, max-age=2").  Earlier entries are removed by clear() and by
\* set() of CacheControl and StrictTransportSecurity, which replaces the list.
C19_DirectiveCallsAppend ==
    /\ [][(history' # history
             /\ IsDirectiveCall(history'[Len(history')])
             /\ history'[Len(history')].exc = "none"
             /\ builder.kind \in ListBuilders)
           => LET token == StatedToken(builder.kind, history'[Len(history')])
              IN /\ Len(builder'.directives) >= Len(builder.directives)
                 /\ SubSeq(builder'.directives, 1, Len(builder.directives))
                      = builder.directives
                 /\ token \notin Range(builder.directives)
                      => builder'.directives
                           = Append(builder.directives, token)]_vars
    /\ []((builder.kind = "cache" /\ Len(history) = 2
             /\ history[1].method = "max_age" /\ history[1].n = 1
             /\ history[2].method = "max_age" /\ history[2].n = 2)
           => OwnValue(builder) = "max-age=1, max-age=2")

\* C19 witness: script_src has been called twice, with different sources, on
\* a ContentSecurityPolicy builder that now holds both entries.
C19_Witness ==
    /\ builder.kind = "csp"
    /\ Len(history) = 2
    /\ history[1].method = "script_src" /\ history[2].method = "script_src"
    /\ history[1].args # history[2].args
    /\ Len(builder.directives) = 2

\* C20: every PermissionsPolicy directive call is accepted, also one without
\* arguments, and renders as directive=(v1 v2 ...), directive=() when it has
\* no arguments; the entries are joined with ", " in call order.
C20_PermissionsShape ==
    LET Shape(c) ==
            StatedName(c.method) \o
               (CASE c.args = <<>> -> "=()"
                  [] c.args = <<"'self'">> -> "=('self')"
                  [] c.args = <<"'self'", "cdn.example.com">> ->
                       "=('self' cdn.example.com)")
    IN (builder.kind = "permissions" /\ OnlyDirectiveCalls)
         => /\ \A i \in 1..Len(history) : history[i].exc = "none"
            /\ builder.directives
                 = [i \in 1..Len(history) |-> Shape(history[i])]
            /\ Len(history) = 2
                 => OwnValue(builder)
                      = Shape(history[1]) \o ", " \o Shape(history[2])

\* C20 witness: a directive without arguments and then one with two allow-list
\* values have been added to a PermissionsPolicy builder.
C20_Witness ==
    /\ builder.kind = "permissions"
    /\ Len(history) = 2
    /\ history[1].method = "geolocation" /\ history[1].args = <<>>
    /\ history[2].method = "camera" /\ Len(history[2].args) = 2
    /\ OwnValue(builder) = "geolocation=(), camera=('self' cdn.example.com)"

\* C21: ContentSecurityPolicy.report_only() changes only the header name, to
\* "Content-Security-Policy-Report-Only" (the directive list and the rendered
\* value stay as they were), and returns the builder it was called on, like
\* every other builder mutator.
C21_ReportOnlyFrame ==
    /\ [][(history' # history
             /\ history'[Len(history')].method = "report_only")
           => /\ builder'.header_name = "Content-Security-Policy-Report-Only"
              /\ builder'.directives = builder.directives
              /\ OwnValue(builder') = OwnValue(builder)]_vars
    /\ [](\A i \in 1..Len(history) :
             history[i].exc = "none" => history[i].ret = "self")

\* C29: a numeric directive of CacheControl (max_age, s_maxage,
\* stale_if_error, stale_while_revalidate) raises ValueError exactly for a
\* negative argument; the call that raises leaves the directive list and the
\* rendered value as they were, and the builder stays usable: the next
\* directive call adds its token as on any other builder.
C29_RejectedCallChangesNothing ==
    /\ [](builder.kind = "cache"
            => \A i \in 1..Len(history) :
                  history[i].method \in NumericMethods \cup {"max_age"}
                     => (history[i].exc = "ValueError") = (history[i].n < 0))
    /\ [][(history' # history
             /\ history'[Len(history')].exc = "ValueError")
           => /\ builder' = builder
              /\ OwnValue(builder') = OwnValue(builder)]_vars
    /\ [][(history' # history /\ Len(history) > 0
             /\ LastCall.exc = "ValueError"
             /\ IsDirectiveCall(history'[Len(history')])
             /\ history'[Len(history')].exc = "none")
           => LET token == StatedToken(builder.kind, history'[Len(history')])
              IN builder'.directives
                   = IF token \in Range(builder.directives)
                     THEN builder.directives
                     ELSE Append(builder.directives, token)]_vars

\* C29 witness: on a CacheControl builder that holds a directive a numeric
\* directive has been rejected and a further directive has then been added.
C29_Witness ==
    /\ builder.kind = "cache"
    /\ Len(history) = 3
    /\ history[1].method = "no_cache"
    /\ history[2].method \in NumericMethods /\ history[2].exc = "ValueError"
    /\ history[3].method = "max_age" /\ history[3].exc = "none"
    /\ Len(builder.directives) = 2

----------------------------------------------------------------------------
(* Further properties of the aggregator (Spec) *)

\* C22: after set_headers on a response that has only a `headers` mapping the
\* call has succeeded, the mapping holds every entry of Secure.headers, no
\* key has been removed, every key that is not a configured header keeps its
\* value, and the aggregator is as it was.
C22_MappingFrame ==
    [][(applications' = applications + 1 /\ result'.op = "set_headers"
          /\ response.has_headers /\ response.set_header = "none")
       => /\ result'.exc = "none"
          /\ cached'
          /\ \A i \in 1..Len(cached_headers') :
                cached_headers'[i] \in Range(response'.headers)
          /\ \A i \in 1..Len(response.headers) :
                /\ HasKey(response'.headers, response.headers[i][1])
                /\ ~HasKey(cached_headers', response.headers[i][1])
                     => response.headers[i] \in Range(response'.headers)
          /\ headers_list' = headers_list]_vars

C25_StrRendering ==
    /\ result.op = "str" => result.exc = "none"
    /\ constructed
         => LET t == Str(headers_list)
                g == headers_get(has_dict, cached, cached_headers, headers_list)
            IN /\ t.exc = "none"
               /\ t.text = Join([i \in 1..Len(headers_list) |->
                                   OwnName(headers_list[i]) \o ": "
                                      \o OwnValue(headers_list[i])], "\n")
               /\ headers_list = <<>>
                    => (t.text = "" /\ g.exc = "none" /\ g.value = <<>>)

\* C26: the rendered mapping has exactly one entry per configured header:
\* len(secure.headers) = len(secure.headers_list) for every aggregator, also
\* when two configured headers carry the same name.
C26_OneEntryPerHeader ==
    result.op = "headers"
        => /\ result.exc = "none"
           /\ cached
           /\ Len(cached_headers) = Len(headers_list)

\* C27: in every reachable state str(secure) and secure.headers describe the
\* same name/value pairs in the same order.
C27_StrAgreesWithHeaders ==
    constructed
        => LET t == Str(headers_list)
               g == headers_get(has_dict, cached, cached_headers, headers_list)
           IN /\ t.exc = "none"
              /\ g.exc = "none"
              /\ t.lines = g.value

====
